---- MODULE Spec2Model ----
(***************************************************************************)
(* board3-backend: the binary codec (ser.rs, de.rs, messages.rs), the      *)
(* per-connection protocol state machine (client.rs) and the board         *)
(* registry with its fan-out (server.rs), as one state machine.            *)
(*                                                                         *)
(* Bytes are 0..255, strings and blobs are sequences of bytes.  A u8 or    *)
(* u16 is an integer; a u32 is a pair and a u64 a 4-tuple of 16-bit limbs, *)
(* least significant first, so that every width keeps its full range.      *)
(***************************************************************************)
EXTENDS Integers, Sequences, FiniteSets, TLC

(***************************************************************************)
(* Bounds of the model.                                                    *)
(***************************************************************************)
\* connections accepted by the listener
NumConns == 3
\* steps taken in one behaviour
MaxSteps == 6
\* largest number of further sends a failing channel still accepts
MaxCredit == 1
\* steps taken in one behaviour over the frames of every variant
WideSteps == 5
\* steps taken in one behaviour with a frame that fills the history
BulkSteps == 4
\* bytes of image data in the frame that fills the history
BulkLen == 65525
\* steps taken in one behaviour on a single board
FanSteps == 7
\* the longest behaviour of any specification: the cap of the step counter
StepCap == FanSteps

\* a value bound once: The({ e(x) : x \in { v } }) is e(v)
The(S) == CHOOSE x \in S : TRUE

(***************************************************************************)
(* messages.rs                                                             *)
(***************************************************************************)
PALETTE_SIZE == 8
HISTORY_ENABLED == 1
HISTORY_TRIMMED == 2

\* const fn color(r, g, b): (b << 16) | (g << 8) | r, as limbs <<low, high>>
color(r, g, b) == << g * 256 + r, b >>

PALETTE_DEFAULT ==
  << color(0, 0, 0), color(255, 0, 0), color(0, 255, 0), color(0, 0, 255),
     color(255, 255, 0), color(0, 255, 255), color(255, 0, 255),
     color(255, 255, 255) >>

\* enum Message: the variants in declaration order; the variant index of the
\* i-th name is i - 1
Variants ==
  << "Auth", "Join", "Create", "BoardConfiguration", "Step", "Draw",
     "CursorMove", "Fill", "Image", "Text", "Undo", "Ping", "UserJoin",
     "UserLeave", "ServerMessage", "History" >>

VariantIndex(name) == (CHOOSE i \in 1..Len(Variants) : Variants[i] = name) - 1

\* the field types of each struct, in declaration order
FieldTypes(name) ==
  CASE name = "Auth" -> << "str" >>
    [] name = "Join" -> << "str" >>
    [] name = "Create" -> << "u64", "str" >>
    [] name = "BoardConfiguration" -> << "palette", "u8", "u8", "u16" >>
    [] name = "Step" -> << "u32" >>
    [] name = "Draw" -> << "u32", "u8", "u8" >>
    [] name = "CursorMove" -> << "u32", "u8" >>
    [] name = "Fill" -> << "u32", "u32", "u8" >>
    [] name = "Image" -> << "u32", "u32", "str" >>
    [] name = "Text" -> << "u32", "str", "u8" >>
    [] name = "Undo" -> << "u32" >>
    [] name = "Ping" -> << "u64" >>
    [] name = "UserJoin" -> << "u8", "str" >>
    [] name = "UserLeave" -> << "u8" >>
    [] name = "ServerMessage" -> << "str" >>
    [] name = "History" -> << "bytes" >>

\* a struct value: its name and its field values in declaration order
Struct(name, fields) == [variant |-> name, fields |-> fields]

(***************************************************************************)
(* ser.rs: a serializer result is [ok, bytes]                              *)
(***************************************************************************)
LEN_LIMIT == 65536

SerOk(bytes) == [ok |-> TRUE, bytes |-> bytes]
SerErr == [ok |-> FALSE, bytes |-> << >>]

serialize_u8(v) == SerOk(<< v >>)

serialize_u16(v) == SerOk(<< v % 256, (v \div 256) % 256 >>)

serialize_u32(v) ==
  SerOk(<< v[1] % 256, (v[1] \div 256) % 256,
           v[2] % 256, (v[2] \div 256) % 256 >>)

\* serialize_u64 pushing the most significant byte first
serialize_u64_be(v) ==
  SerOk(<< (v[4] \div 256) % 256, v[4] % 256,
           (v[3] \div 256) % 256, v[3] % 256,
           (v[2] \div 256) % 256, v[2] % 256,
           (v[1] \div 256) % 256, v[1] % 256 >>)

serialize_u64(v) ==
  SerOk(<< v[1] % 256, (v[1] \div 256) % 256,
           v[2] % 256, (v[2] \div 256) % 256,
           v[3] % 256, (v[3] \div 256) % 256,
           v[4] % 256, (v[4] \div 256) % 256 >>)

serialize_str(v) ==
  IF Len(v) >= LEN_LIMIT THEN SerErr
  ELSE SerOk(serialize_u16(Len(v)).bytes \o v)

\* &[u8] is serialized as a sequence: serialize_seq, then every element as u8
serialize_seq(v) ==
  IF Len(v) >= LEN_LIMIT THEN SerErr
  ELSE SerOk(serialize_u16(Len(v)).bytes \o v)

RECURSIVE serialize_tuple(_)
serialize_tuple(vs) ==
  IF vs = << >> THEN SerOk(<< >>)
  ELSE The({ IF rest.ok THEN SerOk(serialize_u32(Head(vs)).bytes \o rest.bytes)
              ELSE SerErr
              : rest \in { serialize_tuple(Tail(vs)) } })

serialize_value(type, v) ==
  CASE type = "u8" -> serialize_u8(v)
    [] type = "u16" -> serialize_u16(v)
    [] type = "u32" -> serialize_u32(v)
    [] type = "u64" -> serialize_u64(v)
    [] type = "str" -> serialize_str(v)
    [] type = "bytes" -> serialize_seq(v)
    [] type = "palette" -> serialize_tuple(v)

RECURSIVE serialize_fields(_, _)
serialize_fields(types, vs) ==
  IF types = << >> THEN SerOk(<< >>)
  ELSE The({ IF first.ok /\ rest.ok THEN SerOk(first.bytes \o rest.bytes)
              ELSE SerErr
              : first \in { serialize_value(Head(types), Head(vs)) },
                rest \in { serialize_fields(Tail(types), Tail(vs)) } })

\* a struct serialized on its own: its fields, with no variant index
serialize_struct(s) == serialize_fields(FieldTypes(s.variant), s.fields)

\* a variant of enum Message: one byte of variant index, then the struct
serialize_newtype_variant(s) ==
  The({ IF index >= 256 \/ ~body.ok THEN SerErr
        ELSE SerOk(serialize_u8(index).bytes \o body.bytes)
        : index \in { VariantIndex(s.variant) },
          body \in { serialize_struct(s) } })

\* to_bytes(&Message::V(s))
to_bytes_message(s) == serialize_newtype_variant(s)

\* to_bytes(&s) for a bare struct
to_bytes_struct(s) == serialize_struct(s)

(***************************************************************************)
(* de.rs: a reader result is [st, val, pos], st one of "ok", "err" (a      *)
(* Result::Err) and "panic" (an index or a slice out of range)             *)
(***************************************************************************)
DeOk(val, pos) == [st |-> "ok", val |-> val, pos |-> pos]
DeFail(st) == [st |-> st, val |-> << >>, pos |-> 0]

read_u8(input, pos) ==
  IF pos >= Len(input) THEN DeFail("panic")
  ELSE DeOk(input[pos + 1], pos + 1)

\* n successive read_u8()?: the bytes read, or the first failure
RECURSIVE read_u8s(_, _, _)
read_u8s(input, pos, n) ==
  IF n = 0 THEN DeOk(<< >>, pos)
  ELSE The({ IF a.st # "ok" THEN a
             ELSE The({ IF rest.st # "ok" THEN rest
                        ELSE DeOk(<< a.val >> \o rest.val, rest.pos)
                        : rest \in { read_u8s(input, a.pos, n - 1) } })
             : a \in { read_u8(input, pos) } })

\* read_u16 taking the first byte as the high one
read_u16_be(input, pos) ==
  The({ IF r.st # "ok" THEN r
        ELSE DeOk(r.val[1] * 256 + r.val[2], r.pos)
        : r \in { read_u8s(input, pos, 2) } })

read_u16(input, pos) ==
  The({ IF r.st # "ok" THEN r
        ELSE DeOk(r.val[2] * 256 + r.val[1], r.pos)
        : r \in { read_u8s(input, pos, 2) } })

read_u32(input, pos) ==
  The({ IF r.st # "ok" THEN r
        ELSE DeOk(<< r.val[2] * 256 + r.val[1], r.val[4] * 256 + r.val[3] >>, r.pos)
        : r \in { read_u8s(input, pos, 4) } })

read_u64(input, pos) ==
  The({ IF r.st # "ok" THEN r
        ELSE DeOk(<< r.val[2] * 256 + r.val[1], r.val[4] * 256 + r.val[3],
                     r.val[6] * 256 + r.val[5], r.val[8] * 256 + r.val[7] >>, r.pos)
        : r \in { read_u8s(input, pos, 8) } })

read_bytes(input, pos, length) ==
  IF pos + length > Len(input) THEN DeFail("panic")
  ELSE DeOk(SubSeq(input, pos + 1, pos + length), pos + length)

\* std::str::from_utf8 accepts exactly the well-formed UTF-8 sequences
IsCont(b) == b >= 128 /\ b <= 191

RECURSIVE from_utf8(_)
from_utf8(bytes) ==
  IF \A i \in DOMAIN bytes : bytes[i] < 128 THEN TRUE
  ELSE LET b == bytes[1]
           n == Len(bytes)
           width == IF b < 128 THEN 1
                    ELSE IF b >= 194 /\ b <= 223 THEN 2
                    ELSE IF b >= 224 /\ b <= 239 THEN 3
                    ELSE IF b >= 240 /\ b <= 244 THEN 4
                    ELSE 0
           second == \/ width = 1
                     \/ /\ width = 2 /\ IsCont(bytes[2])
                     \/ /\ width = 3
                        /\ CASE b = 224 -> bytes[2] >= 160 /\ bytes[2] <= 191
                             [] b = 237 -> bytes[2] >= 128 /\ bytes[2] <= 159
                             [] OTHER -> IsCont(bytes[2])
                     \/ /\ width = 4
                        /\ CASE b = 240 -> bytes[2] >= 144 /\ bytes[2] <= 191
                             [] b = 244 -> bytes[2] >= 128 /\ bytes[2] <= 143
                             [] OTHER -> IsCont(bytes[2])
       IN  /\ width >= 1
           /\ width <= n
           /\ second
           /\ \A i \in 3..width : IsCont(bytes[i])
           /\ from_utf8(SubSeq(bytes, width + 1, n))

deserialize_str(input, pos) ==
  The({ IF length.st # "ok" THEN length
        ELSE The({ IF bytes.st # "ok" THEN bytes
                   ELSE IF from_utf8(bytes.val) THEN bytes
                   ELSE DeFail("err")
                   : bytes \in { read_bytes(input, length.pos, length.val) } })
        : length \in { read_u16(input, pos) } })

deserialize_bytes(input, pos) ==
  The({ IF length.st # "ok" THEN length
        ELSE read_bytes(input, length.pos, length.val)
        : length \in { read_u16(input, pos) } })

RECURSIVE deserialize_tuple(_, _, _, _)
deserialize_tuple(input, pos, len, acc) ==
  IF len = 0 THEN DeOk(acc, pos)
  ELSE The({ IF r.st # "ok" THEN r
             ELSE deserialize_tuple(input, r.pos, len - 1, Append(acc, r.val))
             : r \in { read_u32(input, pos) } })

deserialize_value(type, input, pos) ==
  CASE type = "u8" -> read_u8(input, pos)
    [] type = "u16" -> read_u16(input, pos)
    [] type = "u32" -> read_u32(input, pos)
    [] type = "u64" -> read_u64(input, pos)
    [] type = "str" -> deserialize_str(input, pos)
    [] type = "bytes" -> deserialize_bytes(input, pos)
    [] type = "palette" -> deserialize_tuple(input, pos, PALETTE_SIZE, << >>)

\* deserialize_struct: Seq::with_len(fields.len()), one element per field
RECURSIVE deserialize_struct(_, _, _, _)
deserialize_struct(types, input, pos, acc) ==
  IF types = << >> THEN DeOk(acc, pos)
  ELSE The({ IF r.st # "ok" THEN r
             ELSE deserialize_struct(Tail(types), input, r.pos, Append(acc, r.val))
             : r \in { deserialize_value(Head(types), input, pos) } })

\* deserialize_enum: the identifier is one u8; the derived visitor accepts the
\* indices of the declared variants only
deserialize_enum(input, pos) ==
  The({ IF index.st # "ok" THEN index
        ELSE IF index.val >= Len(Variants) THEN DeFail("err")
        ELSE The({ IF body.st # "ok" THEN body
                   ELSE DeOk(Struct(Variants[index.val + 1], body.val), body.pos)
                   : body \in { deserialize_struct(FieldTypes(Variants[index.val + 1]),
                                                   input, index.pos, << >>) } })
        : index \in { read_u8(input, pos) } })

\* from_bytes::<Message>: whatever follows the message is not looked at
from_bytes(s) == deserialize_enum(s, 0)

(***************************************************************************)
(* The state                                                               *)
(***************************************************************************)
VARIABLES
  clients,    \* per connection: the Client's authenticated_user, board_context
  server,     \* Server.boards: board name -> Board
  sent,       \* per connection: the frames its Sender accepted, in order
  credit,     \* per connection: sends its Sender still accepts (None: all)
  closing,    \* per connection: it was closed, by the server or by the peer
  panicked,   \* the worker thread panicked
  joins,      \* per board name: the (connection, id) of every add_client, in order
  last,       \* the step taken last: connection, frame, branch taken, close
              \* sent, sends accepted
  nsteps,     \* steps taken so far
  codec       \* the codec on its own: a value, its encoding, what that decodes to

vars ==
  << clients, server, sent, credit, closing, panicked, joins, last, nsteps, codec >>

Conns == 1..NumConns

None == << >>
Some(x) == << x >>
Get(o) == o[1]

\* inputs: the token of each connection, the board names and the frames
Token(c) == << 116 + c >>
BoardNames == { << 97 >>, << 98 >> }

U32(n) == << n, 0 >>
U64(n) == << n, 0, 0, 0 >>

\* the frame of one message
Frame(name, fields) == to_bytes_message(Struct(name, fields)).bytes

\* well-formed frames, a frame with a trailing byte, an unknown variant index,
\* a truncated frame and the empty frame
Frames(c) ==
  { Frame("Auth", << Token(c) >>) }
    \cup { Frame("Join", << n >>) : n \in BoardNames }
    \cup { Frame("Create", << U64(7), n >>) : n \in BoardNames }
    \cup { Frame("Draw", << U32(100), 3, 0 >>),
           Frame("Fill", << U32(1), U32(2), 4 >>),
           Frame("Ping", << U64(9) >>),
           Frame("UserLeave", << 0 >>),
           Frame("Draw", << U32(100), 3, 0 >>) \o << 0 >>,
           << 16 >>, << 5, 100, 0 >>, << >> }

\* what connection c may send: a text message or a binary frame
Inbound(c) ==
  { [kind |-> "Text", data |-> << >>] }
    \cup { [kind |-> "Binary", data |-> t] : t \in Frames(c) }

\* frames whose first byte is no variant index
UnknownFrames == { << 16 >>, << 200, 1, 0 >>, << 255 >> }

\* one frame of every variant of Message, and the frames of no variant
WideFrames(c) ==
  UnknownFrames \cup
  { Frame("Auth", << Token(c) >>),
    Frame("Join", << << 97 >> >>),
    Frame("Create", << U64(7), << 97 >> >>),
    Frame("BoardConfiguration", << PALETTE_DEFAULT, 0, HISTORY_ENABLED, 65535 >>),
    Frame("Step", << U32(1) >>),
    Frame("Draw", << U32(100), 3, 0 >>),
    Frame("CursorMove", << U32(5), 1 >>),
    Frame("Fill", << U32(1), U32(2), 4 >>),
    Frame("Image", << U32(1), U32(2), << 120 >> >>),
    Frame("Text", << U32(1), << 104 >>, 2 >>),
    Frame("Undo", << U32(1) >>),
    Frame("Ping", << U64(9) >>),
    Frame("UserJoin", << 1, << 117 >> >>),
    Frame("UserLeave", << 0 >>),
    Frame("ServerMessage", << << 109 >> >>),
    Frame("History", << << 1, 2 >> >>) }

InboundWide(c) ==
  { [kind |-> "Text", data |-> << >>] }
    \cup { [kind |-> "Binary", data |-> t] : t \in WideFrames(c) }

\* an Image frame whose data alone nearly fills a history of 65535 bytes
BulkData == [i \in 1..BulkLen |-> 97]
BulkFrame == Frame("Image", << U32(0), U32(0), BulkData >>)

BulkFrames(c) ==
  { Frame("Auth", << Token(c) >>),
    Frame("Join", << << 97 >> >>),
    Frame("Create", << U64(7), << 97 >> >>),
    BulkFrame }

InboundBulk(c) == { [kind |-> "Binary", data |-> t] : t \in BulkFrames(c) }

(***************************************************************************)
(* ws::Sender: out.send fails once the channel's credit is used up         *)
(***************************************************************************)
\* send putting the frame in front of what the channel already carries
send_front(io, c, frame) ==
  IF io.credit[c] = Some(0) THEN [ok |-> FALSE, io |-> io]
  ELSE [ok |-> TRUE,
        io |-> [credit |-> IF io.credit[c] = None THEN io.credit
                           ELSE [io.credit EXCEPT ![c] = Some(Get(@) - 1)],
                sent |-> [io.sent EXCEPT ![c] = << frame >> \o @],
                order |-> Append(io.order, [to |-> c, frame |-> frame])]]

\* io is [credit, sent, order], order being the sends of the step that were
\* accepted, in the order in which they were made; the result adds ok
send(io, c, frame) ==
  IF io.credit[c] = Some(0) THEN [ok |-> FALSE, io |-> io]
  ELSE [ok |-> TRUE,
        io |-> [credit |-> IF io.credit[c] = None THEN io.credit
                           ELSE [io.credit EXCEPT ![c] = Some(Get(@) - 1)],
                sent |-> [io.sent EXCEPT ![c] = Append(@, frame)],
                order |-> Append(io.order, [to |-> c, frame |-> frame])]]

(***************************************************************************)
(* server.rs                                                               *)
(***************************************************************************)
U8_MODULUS == 256
U16_MAX == 65535
HISTORY_CHUNK == 65535

\* Board::new
Board_new ==
  [clients |-> << >>,
   last_client_id |-> 0,
   last_step_id |-> 0,
   history |-> << >>,
   history_size |-> U16_MAX,
   palette |-> PALETTE_DEFAULT,
   background_color |-> 0]

\* has_board finding no board whatever the name
has_board_never(boards, name) == FALSE

\* Server::has_board
has_board(boards, name) == name \in DOMAIN boards

\* Server::create: entry(name).or_insert(Board::new())
create(boards, name) ==
  IF name \in DOMAIN boards THEN boards
  ELSE [n \in DOMAIN boards \cup {name} |->
          IF n = name THEN Board_new ELSE boards[n]]

\* Server::find
find(boards, name) == IF name \in DOMAIN boards THEN Some(boards[name]) ELSE None

\* Board::board_flags
board_flags(board) == HISTORY_ENABLED

\* add_to_history putting the message in front of the history
add_to_history_front(board, message) ==
  [board EXCEPT !.history = message \o @]

\* add_to_history replacing the history by the message
add_to_history_reset(board, message) ==
  [board EXCEPT !.history = message]

\* Board::add_to_history
add_to_history(board, message) ==
  [board EXCEPT !.history = @ \o message]

\* the UserLeave frame of a roster entry whose send failed; unwrap() of a
\* missing board context panics
leave_message(x) ==
  IF x.board_context = None THEN [panicked |-> TRUE, bytes |-> << >>]
  ELSE [panicked |-> FALSE,
        bytes |-> to_bytes_message(
                    Struct("UserLeave",
                           << Get(x.board_context).board_client_id >>)).bytes]

\* the first loop of broadcast collecting two UserLeave frames per failed send
RECURSIVE broadcast_pass_twice(_, _, _, _, _)
broadcast_pass_twice(initial, message, io, kept, errs) ==
  IF initial = << >>
  THEN [clients |-> kept, errs |-> errs, io |-> io, panicked |-> FALSE]
  ELSE The({ IF r.ok
             THEN broadcast_pass_twice(Tail(initial), message, r.io, Append(kept, x), errs)
             ELSE The({ IF leave.panicked
                        THEN [clients |-> kept, errs |-> errs, io |-> io,
                              panicked |-> TRUE]
                        ELSE broadcast_pass_twice(Tail(initial), message, io, kept,
                                                  errs \o << leave.bytes, leave.bytes >>)
                        : leave \in { leave_message(x) } })
             : x \in { Head(initial) }, r \in { send(io, Head(initial).out, message) } })

\* Board::broadcast, the first loop: over the roster taken out of the board
RECURSIVE broadcast_pass(_, _, _, _, _)
broadcast_pass(initial, message, io, kept, errs) ==
  IF initial = << >>
  THEN [clients |-> kept, errs |-> errs, io |-> io, panicked |-> FALSE]
  ELSE The({ IF r.ok
             THEN broadcast_pass(Tail(initial), message, r.io, Append(kept, x), errs)
             ELSE The({ IF leave.panicked
                        THEN [clients |-> kept, errs |-> errs, io |-> io,
                              panicked |-> TRUE]
                        ELSE broadcast_pass(Tail(initial), message, io, kept,
                                            Append(errs, leave.bytes))
                        : leave \in { leave_message(x) } })
             : x \in { Head(initial) }, r \in { send(io, Head(initial).out, message) } })

\* Board::broadcast: the first loop, then one broadcast per collected UserLeave;
\* calls counts the calls of self.broadcast made inside this one
RECURSIVE broadcast(_, _, _)
RECURSIVE broadcast_errs(_, _, _)
broadcast(board, message, io) ==
  The({ IF pass.panicked
        THEN [board |-> [board EXCEPT !.clients = pass.clients], io |-> pass.io,
              panicked |-> TRUE, calls |-> 0]
        ELSE broadcast_errs([board EXCEPT !.clients = pass.clients], pass.errs,
                            pass.io)
        : pass \in { broadcast_pass(board.clients, message, io, << >>, << >>) } })

broadcast_errs(board, errs, io) ==
  IF errs = << >> THEN [board |-> board, io |-> io, panicked |-> FALSE, calls |-> 0]
  ELSE The({ IF r.panicked THEN [r EXCEPT !.calls = @ + 1]
             ELSE The({ [rest EXCEPT !.calls = @ + r.calls + 1]
                        : rest \in { broadcast_errs(r.board, Tail(errs), r.io) } })
             : r \in { broadcast(board, Head(errs), io) } })

\* slice::chunks(n)
RECURSIVE chunks(_, _)
chunks(data, n) ==
  IF data = << >> THEN << >>
  ELSE IF Len(data) <= n THEN << data >>
  ELSE << SubSeq(data, 1, n) >> \o chunks(SubSeq(data, n + 1, Len(data)), n)

\* the BoardConfiguration frame of add_client
configuration_frame(board) ==
  to_bytes_struct(
    Struct("BoardConfiguration",
           << board.palette, board.background_color, board_flags(board),
              board.history_size >>)).bytes

\* one History frame of add_client
history_frame(x) == to_bytes_struct(Struct("History", << x >>)).bytes

\* the UserJoin frame of add_client
join_message(username, user_id) ==
  to_bytes_message(Struct("UserJoin", << user_id, username >>)).bytes

\* add_client, the loop over the history chunks
RECURSIVE send_history(_, _, _)
send_history(parts, c, io) ==
  IF parts = << >> THEN [ok |-> TRUE, io |-> io]
  ELSE The({ IF ~r.ok THEN r
             ELSE send_history(Tail(parts), c, r.io)
             : r \in { send(io, c, history_frame(Head(parts))) } })

\* the id add_client gives the next client
next_client_id(id) == (id + 1) % U8_MODULUS

\* add_client once the UserJoin broadcast b is done: the roster entry is
\* pushed, then the configuration and the history are sent to the new client
add_client_send(b, client1) ==
  The({ The({ IF ~conf.ok
              THEN [board |-> board2, client |-> client1, io |-> conf.io,
                    ok |-> FALSE, panicked |-> FALSE, added |-> TRUE]
              ELSE The({ [board |-> board2, client |-> client1, io |-> hist.io,
                          ok |-> hist.ok, panicked |-> FALSE, added |-> TRUE]
                         : hist \in { send_history(chunks(board2.history, HISTORY_CHUNK),
                                                   client1.out, conf.io) } })
              : conf \in { send(b.io, client1.out, configuration_frame(board2)) } })
        : board2 \in { [b.board EXCEPT !.clients = Append(@, client1)] } })

\* Board::add_client; client is [out, authenticated_user, board_context]
add_client(board, client, io) ==
  IF client.authenticated_user = None
  THEN [board |-> board, client |-> client, io |-> io, ok |-> FALSE,
        panicked |-> FALSE, added |-> FALSE]
  ELSE The({ The({ IF b.panicked
                   THEN [board |-> b.board, client |-> client1, io |-> b.io,
                         ok |-> FALSE, panicked |-> TRUE, added |-> FALSE]
                   ELSE add_client_send(b, client1)
                   : b \in { broadcast(
                               [board EXCEPT !.last_client_id = next_client_id(@)],
                               join_message(Get(client.authenticated_user).username,
                                            board.last_client_id),
                               io) } })
             : client1 \in { IF client.board_context = None THEN client
                             ELSE [client EXCEPT
                                     !.board_context =
                                       Some([Get(@) EXCEPT
                                               !.board_client_id = board.last_client_id])] } })

(***************************************************************************)
(* auth.rs                                                                 *)
(***************************************************************************)
\* auth(Auth): every token is accepted, the username is the token
auth(t) == Some([username |-> t.fields[1]])

(***************************************************************************)
(* client.rs: a handler returns what it leaves behind:                     *)
(*   client    the Client of the connection                                *)
(*   boards    Server.boards                                               *)
(*   io        the channels                                                *)
(*   close     the close the connection gets, if any                       *)
(*   err       the ws::Error the handler returns, if any                   *)
(*   panicked  the handler panicked                                        *)
(*   kind      the branch taken                                            *)
(*   joined    the (board, connection, id) of a roster entry added         *)
(***************************************************************************)
Outcome(c, kind) ==
  [client |-> clients[c],
   boards |-> server,
   io |-> [credit |-> credit, sent |-> sent, order |-> << >>],
   close |-> None,
   err |-> None,
   panicked |-> FALSE,
   kind |-> kind,
   joined |-> None]

\* out.close_with_reason(code, reason)
close_with_reason(c, code, reason) ==
  [Outcome(c, "close") EXCEPT !.close = Some([code |-> code, reason |-> reason])]

\* the Client as the board's roster keeps it: a clone, with its Sender
Handle(c, client) ==
  [out |-> c,
   authenticated_user |-> client.authenticated_user,
   board_context |-> client.board_context]

\* what handle_board_create and handle_board_join make of add_client's result
after_add_client(c, kind, name, boards, r) ==
  [client |-> [authenticated_user |-> r.client.authenticated_user,
               board_context |-> r.client.board_context],
   boards |-> [boards EXCEPT ![name] = r.board],
   io |-> r.io,
   close |-> None,
   err |-> IF r.ok \/ r.panicked THEN None
           ELSE Some([kind |-> "Internal", details |-> "cannot add client to board"]),
   panicked |-> r.panicked,
   kind |-> kind,
   joined |-> IF r.added
              THEN Some([board |-> name, conn |-> c,
                         id |-> boards[name].last_client_id])
              ELSE None]

\* Client::handle_board_create
handle_board_create(c, t) ==
  LET name == t.fields[2]
      client1 == [clients[c] EXCEPT
                    !.board_context = Some([board_client_id |-> 0, board_name |-> name])]
  IN  IF has_board(server, name)
      THEN close_with_reason(c, "Error", "board already exists")
      ELSE The({ after_add_client(c, "create", name, boards1,
                                  add_client(boards1[name], Handle(c, client1),
                                             [credit |-> credit, sent |-> sent, order |-> << >>]))
                 : boards1 \in { create(server, name) } })

\* Client::handle_board_join
handle_board_join(c, t) ==
  LET name == t.fields[1]
      b == find(server, name)
  IN  IF b = None
      THEN close_with_reason(c, "Error", "board not found")
      ELSE after_add_client(c, "join", name, server,
                            add_client(Get(b), Handle(c, clients[c]),
                                       [credit |-> credit, sent |-> sent, order |-> << >>]))

\* the match of ensure_auth with the Some arm not storing the user
ensure_auth_match_unstored(c, user) ==
  IF user = None
  THEN close_with_reason(c, "Error", "invalid auth")
  ELSE Outcome(c, "auth")

\* Client::ensure_auth, the match on what auth returned
ensure_auth_match(c, user) ==
  IF user = None
  THEN close_with_reason(c, "Error", "invalid auth")
  ELSE [Outcome(c, "auth") EXCEPT !.client.authenticated_user = user]

\* Client::ensure_auth
ensure_auth(c, msg) ==
  IF msg.variant = "Auth"
  THEN ensure_auth_match(c, auth(msg))
  ELSE close_with_reason(c, "Error", "auth expected")

\* ensure_in_board with the catch-all arm ignoring the frame instead of closing
ensure_in_board_lenient(c, msg) ==
  CASE msg.variant = "Join" -> handle_board_join(c, msg)
    [] msg.variant = "Create" -> handle_board_create(c, msg)
    [] OTHER -> Outcome(c, "noop")

\* Client::ensure_in_board
ensure_in_board(c, msg) ==
  CASE msg.variant = "Join" -> handle_board_join(c, msg)
    [] msg.variant = "Create" -> handle_board_create(c, msg)
    [] OTHER -> close_with_reason(c, "Error", "auth expected")

\* broadcast_to_board taking a board of the registry whatever the connection's
\* board context names
broadcast_to_board_any(c, t) ==
  LET name == CHOOSE n \in DOMAIN server : \A m \in DOMAIN server : n[1] <= m[1]
      board == Get(find(server, name))
      board1 == IF board.history_size # 0 THEN add_to_history(board, t) ELSE board
  IN  The({ [Outcome(c, "broadcast") EXCEPT
               !.boards = [server EXCEPT ![name] = r.board],
               !.io = r.io,
               !.panicked = r.panicked]
            : r \in { broadcast(board1, t, [credit |-> credit, sent |-> sent, order |-> << >>]) } })

\* broadcast_to_board going through the roster from its last entry to its first
broadcast_to_board_backwards(c, t) ==
  LET name == Get(clients[c].board_context).board_name
      board == Get(find(server, name))
      board1 == IF board.history_size # 0 THEN add_to_history(board, t) ELSE board
      board2 == [board1 EXCEPT !.clients =
                   [i \in 1..Len(@) |-> @[Len(@) + 1 - i]]]
  IN  The({ [Outcome(c, "broadcast") EXCEPT
               !.boards = [server EXCEPT ![name] = r.board],
               !.io = r.io,
               !.panicked = r.panicked]
            : r \in { broadcast(board2, t, [credit |-> credit, sent |-> sent, order |-> << >>]) } })

\* Client::broadcast_to_board
broadcast_to_board(c, t) ==
  LET name == Get(clients[c].board_context).board_name
      board == Get(find(server, name))
      board1 == IF board.history_size # 0 THEN add_to_history(board, t) ELSE board
  IN  The({ [Outcome(c, "broadcast") EXCEPT
               !.boards = [server EXCEPT ![name] = r.board],
               !.io = r.io,
               !.panicked = r.panicked]
            : r \in { broadcast(board1, t, [credit |-> credit, sent |-> sent, order |-> << >>]) } })

\* the variants handle_in_board_msg forwards to the board
IsDrawing(variant) == variant \in { "Draw", "CursorMove", "Fill", "Image", "Text" }

\* handle_in_board_msg forwarding the server-to-client variants to the board
handle_in_board_msg_relay(c, msg, t) ==
  CASE msg.variant = "Auth" -> close_with_reason(c, "Error", "already authenticated")
    [] msg.variant \in { "Join", "Create" } ->
         close_with_reason(c, "Error", "already joined a board")
    [] msg.variant \in { "Ping", "Step", "Undo" } -> Outcome(c, "noop")
    [] OTHER -> broadcast_to_board(c, t)

\* handle_in_board_msg forwarding Ping, Step and Undo to the board
handle_in_board_msg_echo(c, msg, t) ==
  CASE msg.variant = "Auth" -> close_with_reason(c, "Error", "already authenticated")
    [] msg.variant \in { "Join", "Create" } ->
         close_with_reason(c, "Error", "already joined a board")
    [] msg.variant = "BoardConfiguration" ->
         close_with_reason(c, "Error", "board configuration invalid atm")
    [] msg.variant = "History" -> close_with_reason(c, "Error", "history invalid atm")
    [] msg.variant = "ServerMessage" ->
         close_with_reason(c, "Error", "server message invalid atm")
    [] msg.variant = "UserJoin" -> close_with_reason(c, "Error", "user join invalid atm")
    [] msg.variant = "UserLeave" -> close_with_reason(c, "Error", "user leave invalid atm")
    [] OTHER -> broadcast_to_board(c, t)

\* Client::handle_in_board_msg
handle_in_board_msg(c, msg, t) ==
  CASE msg.variant = "Auth" -> close_with_reason(c, "Error", "already authenticated")
    [] msg.variant = "Join" -> close_with_reason(c, "Error", "already joined a board")
    [] msg.variant = "BoardConfiguration" ->
         close_with_reason(c, "Error", "board configuration invalid atm")
    [] msg.variant = "History" -> close_with_reason(c, "Error", "history invalid atm")
    [] msg.variant = "ServerMessage" ->
         close_with_reason(c, "Error", "server message invalid atm")
    [] msg.variant = "UserJoin" -> close_with_reason(c, "Error", "user join invalid atm")
    [] msg.variant = "UserLeave" -> close_with_reason(c, "Error", "user leave invalid atm")
    [] msg.variant = "Create" -> close_with_reason(c, "Error", "already joined a board")
    [] msg.variant \in { "Ping", "Step", "Undo" } -> Outcome(c, "noop")
    [] IsDrawing(msg.variant) -> broadcast_to_board(c, t)

\* handle_binary_msg without the check of authenticated_user
handle_binary_msg_unchecked(c, t) ==
  The({ IF msg.st = "panic" THEN [Outcome(c, "panic") EXCEPT !.panicked = TRUE]
        ELSE IF msg.st = "err" THEN close_with_reason(c, "Error", "invalid message")
        ELSE IF clients[c].board_context = None THEN ensure_in_board(c, msg.val)
        ELSE handle_in_board_msg(c, msg.val, t)
        : msg \in { from_bytes(t) } })

\* handle_binary_msg dropping a frame that does not decode
handle_binary_msg_lenient(c, t) ==
  The({ IF msg.st = "panic" THEN [Outcome(c, "panic") EXCEPT !.panicked = TRUE]
        ELSE IF msg.st = "err" THEN Outcome(c, "ignored")
        ELSE IF clients[c].authenticated_user = None THEN ensure_auth(c, msg.val)
        ELSE IF clients[c].board_context = None THEN ensure_in_board(c, msg.val)
        ELSE handle_in_board_msg(c, msg.val, t)
        : msg \in { from_bytes(t) } })

\* Client::handle_binary_msg
handle_binary_msg(c, t) ==
  The({ IF msg.st = "panic" THEN [Outcome(c, "panic") EXCEPT !.panicked = TRUE]
        ELSE IF msg.st = "err" THEN close_with_reason(c, "Error", "invalid message")
        ELSE IF clients[c].authenticated_user = None THEN ensure_auth(c, msg.val)
        ELSE IF clients[c].board_context = None THEN ensure_in_board(c, msg.val)
        ELSE handle_in_board_msg(c, msg.val, t)
        : msg \in { from_bytes(t) } })

\* Handler::on_message
on_message(c, msg) ==
  IF msg.kind = "Text" THEN close_with_reason(c, "Invalid", "expected binary")
  ELSE handle_binary_msg(c, msg.data)

(***************************************************************************)
(* The state machine                                                       *)
(***************************************************************************)
\* main: the listener's factory makes every Client with no user and no board
\* context; Server::new has no board
Init ==
  /\ clients = [c \in Conns |-> [authenticated_user |-> None, board_context |-> None]]
  /\ server = << >>
  /\ sent = [c \in Conns |-> << >>]
  /\ credit = [c \in Conns |-> None]
  /\ closing = [c \in Conns |-> FALSE]
  /\ panicked = FALSE
  /\ joins = [n \in BoardNames |-> << >>]
  /\ last = [conn |-> 0, frame |-> << >>, kind |-> "init", close |-> None,
             err |-> None, order |-> << >>]
  /\ codec = [stage |-> "idle", value |-> << >>, bytes |-> << >>,
              encoded |-> FALSE, decoded |-> DeFail("err")]
  /\ nsteps = 0

\* connection c has sent a frame or was closed
Touched(c) ==
  \/ clients[c].authenticated_user # None
  \/ closing[c]

\* connections are numbered in the order in which they first take part
InTurn(c) == IF c = 1 THEN TRUE ELSE Touched(c - 1)

\* one inbound frame of connection c, handled to completion
OnMessage(c, msg) ==
  /\ ~panicked
  /\ ~closing[c]
  /\ InTurn(c)
  /\ nsteps < StepCap
  /\ \E r \in { on_message(c, msg) } :
         /\ clients' = [clients EXCEPT ![c] = r.client]
         /\ server' = r.boards
         /\ sent' = r.io.sent
         /\ credit' = r.io.credit
         /\ closing' = [closing EXCEPT ![c] = r.close # None]
         /\ panicked' = r.panicked
         /\ joins' = IF r.joined = None THEN joins
                     ELSE [joins EXCEPT ![Get(r.joined).board] =
                             Append(@, [conn |-> c, id |-> Get(r.joined).id])]
         /\ last' = [conn |-> c, frame |-> msg.data, kind |-> r.kind,
                     close |-> r.close, err |-> r.err, order |-> r.io.order]
  /\ nsteps' = nsteps + 1
  /\ UNCHANGED codec

\* Handler::on_close: the peer closed the connection; the handler only logs
OnClose(c) ==
  /\ ~panicked
  /\ ~closing[c]
  /\ InTurn(c)
  /\ nsteps < StepCap
  /\ closing' = [closing EXCEPT ![c] = TRUE]
  /\ last' = [conn |-> c, frame |-> << >>, kind |-> "on_close", close |-> None,
              err |-> None, order |-> << >>]
  /\ nsteps' = nsteps + 1
  /\ UNCHANGED << clients, server, sent, credit, panicked, joins, codec >>

\* the channel of connection c starts to fail: it accepts k more sends.  Only
\* add_client and broadcast send, and only to a connection that has a user, so
\* the failure of a channel that can no longer be sent to is left out.
ChannelFails(c, k) ==
  /\ ~panicked
  /\ credit[c] = None
  /\ clients[c].authenticated_user # None
  /\ ~closing[c] \/ \E n \in DOMAIN server : \E i \in DOMAIN server[n].clients :
                       server[n].clients[i].out = c
  /\ nsteps < StepCap
  /\ credit' = [credit EXCEPT ![c] = Some(k)]
  /\ last' = [conn |-> c, frame |-> << >>, kind |-> "channel", close |-> None,
              err |-> None, order |-> << >>]
  /\ nsteps' = nsteps + 1
  /\ UNCHANGED << clients, server, sent, closing, panicked, joins, codec >>

Next ==
  \/ \E c \in Conns : \E msg \in Inbound(c) :
       nsteps < MaxSteps /\ OnMessage(c, msg)
  \/ \E c \in Conns : nsteps < MaxSteps /\ OnClose(c)
  \/ \E c \in Conns, k \in 0..MaxCredit : nsteps < MaxSteps /\ ChannelFails(c, k)

Spec == Init /\ [][Next]_vars

\* the same machine fed one frame of every variant, over shorter behaviours
NextWide ==
  \/ \E c \in Conns : \E msg \in InboundWide(c) :
       nsteps < WideSteps /\ OnMessage(c, msg)
  \/ \E c \in Conns : nsteps < WideSteps /\ OnClose(c)
  \/ \E c \in Conns, k \in 0..MaxCredit : nsteps < WideSteps /\ ChannelFails(c, k)

SpecWide == Init /\ [][NextWide]_vars

\* the same machine fed a frame of nearly 65535 bytes
NextBulk ==
  \/ \E c \in Conns : \E msg \in InboundBulk(c) :
       nsteps < BulkSteps /\ OnMessage(c, msg)
  \/ \E c \in Conns : nsteps < BulkSteps /\ OnClose(c)
  \/ \E c \in Conns, k \in 0..MaxCredit : nsteps < BulkSteps /\ ChannelFails(c, k)

SpecBulk == Init /\ [][NextBulk]_vars

\* the frames of one board's life: authenticate, create, join, draw
FanFrames(c) ==
  { Frame("Auth", << Token(c) >>),
    Frame("Join", << << 97 >> >>),
    Frame("Create", << U64(7), << 97 >> >>),
    Frame("Draw", << U32(100), 3, 0 >>) }

InboundFan(c) == { [kind |-> "Binary", data |-> t] : t \in FanFrames(c) }

\* the same machine on one board, over behaviours long enough for two members
\* of a roster to lose their channels before a broadcast
NextFan ==
  \/ \E c \in Conns : \E msg \in InboundFan(c) :
       nsteps < FanSteps /\ OnMessage(c, msg)
  \/ \E c \in Conns : nsteps < FanSteps /\ OnClose(c)
  \/ \E c \in Conns, k \in 0..MaxCredit : nsteps < FanSteps /\ ChannelFails(c, k)

SpecFan == Init /\ [][NextFan]_vars

(***************************************************************************)
(* The codec on its own: to_bytes applied to sample values of every        *)
(* variant, from_bytes applied to the result                               *)
(***************************************************************************)
\* a string and a blob of the greatest length to_bytes accepts
MaxStr == [i \in 1..U16_MAX |-> 97]
MaxBlob == [i \in 1..U16_MAX |-> (i * 7) % 256]

\* sample values of a field type: the extremes, and values whose bytes differ
Samples(type) ==
  CASE type = "u8" -> << 0, 1, 255 >>
    [] type = "u16" -> << 0, 258, 65535 >>
    [] type = "u32" -> << << 0, 0 >>, << 513, 1027 >>, << 65535, 65535 >> >>
    [] type = "u64" -> << << 0, 0, 0, 0 >>, << 513, 1027, 1541, 2055 >>,
                          << 65535, 65535, 65535, 65535 >> >>
    [] type = "str" -> << << >>, << 97 >>, << 195, 169, 0 >>,
                          << 240, 159, 142, 168, 122 >>, MaxStr >>
    [] type = "bytes" -> << << >>, << 0, 255 >>, << 200, 128 >>, MaxBlob >>
    [] type = "palette" ->
         << PALETTE_DEFAULT,
            << << 0, 0 >>, << 513, 1027 >>, << 65535, 65535 >>, << 1, 0 >>,
               << 0, 1 >>, << 255, 0 >>, << 0, 255 >>, << 256, 256 >> >> >>

\* the field values of a struct with these field types: every combination of
\* the samples
RECURSIVE Combos(_)
Combos(types) ==
  IF types = << >> THEN << << >> >>
  ELSE The({ [k \in 1..(Len(hs) * Len(ts)) |->
                << hs[((k - 1) \div Len(ts)) + 1] >> \o ts[((k - 1) % Len(ts)) + 1]]
             : hs \in { Samples(Head(types)) }, ts \in { Combos(Tail(types)) } })

VariantNames == { Variants[i] : i \in DOMAIN Variants }

\* to_bytes(&Message::V(value))
Encode(v) ==
  /\ codec.stage = "idle"
  /\ \E r \in { to_bytes_message(v) } :
       codec' = [stage |-> "encoded", value |-> v, bytes |-> r.bytes,
                 encoded |-> r.ok, decoded |-> DeFail("err")]
  /\ UNCHANGED << clients, server, sent, credit, closing, panicked, joins, last,
                  nsteps >>

\* from_bytes::<Message> of the bytes to_bytes made
Decode ==
  /\ codec.stage = "encoded"
  /\ codec.encoded
  /\ codec' = [codec EXCEPT !.stage = "decoded", !.decoded = from_bytes(codec.bytes)]
  /\ UNCHANGED << clients, server, sent, credit, closing, panicked, joins, last,
                  nsteps >>

NextCodec ==
  \/ \E name \in VariantNames : \E k \in DOMAIN Combos(FieldTypes(name)) :
       Encode(Struct(name, Combos(FieldTypes(name))[k]))
  \/ Decode

SpecCodec == Init /\ [][NextCodec]_vars

(***************************************************************************)
(* Vocabulary of the properties                                            *)
(***************************************************************************)
Unauthenticated(c) == clients[c].authenticated_user = None

Authenticated(c) ==
  clients[c].authenticated_user # None /\ clients[c].board_context = None

InBoard(c) ==
  clients[c].authenticated_user # None /\ clients[c].board_context # None

\* the roster entries of connection c on board n
Entries(c, n) ==
  { i \in DOMAIN server[n].clients : server[n].clients[i].out = c }

OnRoster(c, n) == Entries(c, n) # { }

\* the roster of board n after the step
EntriesAfter(c, n) ==
  { i \in DOMAIN server'[n].clients : server'[n].clients[i].out = c }

RECURSIVE SumOver(_, _)
SumOver(S, f) ==
  IF S = { } THEN 0
  ELSE LET x == CHOOSE y \in S : TRUE
       IN  f[x] + SumOver(S \ { x }, f)

\* the roster entries of connection c over all boards
TotalEntries(c) ==
  SumOver(DOMAIN server, [n \in DOMAIN server |-> Cardinality(Entries(c, n))])

\* connection c was added to board n at some time
EverAdded(c, n) == \E k \in DOMAIN joins[n] : joins[n][k].conn = c

\* the frames connection c is sent by the step
NewFrames(c) == SubSeq(sent'[c], Len(sent[c]) + 1, Len(sent'[c]))

Occurrences(frames, f) == Cardinality({ i \in DOMAIN frames : frames[i] = f })

\* the variant a frame decodes to ("" when it does not decode)
VariantOf(t) ==
  LET d == from_bytes(t)
  IN  IF d.st = "ok" THEN d.val.variant ELSE ""

\* the board named by the Join or Create frame of the last step
LastName ==
  LET m == from_bytes(last.frame).val
  IN  IF m.variant = "Join" THEN m.fields[1] ELSE m.fields[2]

\* the last step was an add_client that returned Ok
AddedOk ==
  /\ last.kind \in { "create", "join" }
  /\ last.close = None
  /\ last.err = None
  /\ ~panicked

AuthExpected == Some([code |-> "Error", reason |-> "auth expected"])

\* a close with code Error and the given reason
ErrorClose(reason) == Some([code |-> "Error", reason |-> reason])

\* sequence p is a prefix of sequence q
IsPrefix(p, q) == Len(p) <= Len(q) /\ SubSeq(q, 1, Len(p)) = p

\* the step handled a frame of connection c that decodes to variant v
Handled(c, v) ==
  /\ last'.conn = c
  /\ last'.kind \notin { "on_close", "channel" }
  /\ VariantOf(last'.frame) = v

\* the step handled a drawing frame of connection c, which is in board n
Drawn(c, n) ==
  /\ last'.conn = c
  /\ last'.kind \notin { "on_close", "channel" }
  /\ IsDrawing(VariantOf(last'.frame))
  /\ InBoard(c)
  /\ Get(clients[c].board_context).board_name = n

\* the board name in the Join or Create frame the step handled
NameHandled ==
  LET m == from_bytes(last'.frame).val
  IN  IF m.variant = "Join" THEN m.fields[1] ELSE m.fields[2]

\* the step handled a binary frame
BinaryStep ==
  /\ last'.kind \notin { "on_close", "channel" }
  /\ last'.close # Some([code |-> "Invalid", reason |-> "expected binary"])

\* frame t is exactly one encoded Message
ValidEncoding(t) ==
  LET d == from_bytes(t)
  IN  d.st = "ok" /\ to_bytes_message(d.val).bytes = t

\* frame t is a proper prefix of a valid frame connection c may send
Truncated(c, t) ==
  \E f \in Frames(c) : ValidEncoding(f) /\ Len(t) < Len(f) /\ IsPrefix(t, f)

(***************************************************************************)
(* Properties                                                              *)
(***************************************************************************)

\* C1 (as claimed): when an InBoard connection on its board's roster sends a
\* drawing frame, every other connection on that roster whose channel accepts
\* sends is sent exactly the bytes of that frame, exactly once.
C1_DrawingFrameOnceToEachPeer ==
  [][ last'.kind = "broadcast" =>
        LET c == last'.conn
            n == Get(clients[c].board_context).board_name
        IN  OnRoster(c, n) =>
              \A r \in Conns \ { c } :
                (OnRoster(r, n) /\ credit[r] = None) =>
                  Occurrences(NewFrames(r), last'.frame) = 1 ]_vars

\* C2: a drawing frame broadcast on board n is sent to no connection that was
\* never added to n, and leaves every other board (roster, history, id counter)
\* and the set of boards as they were.
C2_BroadcastStaysOnBoard ==
  [][ last'.kind = "broadcast" =>
        LET c == last'.conn
            n == Get(clients[c].board_context).board_name
        IN  /\ \A r \in Conns : ~EverAdded(r, n) => sent'[r] = sent[r]
            /\ DOMAIN server' = DOMAIN server
            /\ \A m \in DOMAIN server \ { n } : server'[m] = server[m] ]_vars

\* a drawing frame was broadcast on one board and came back to its sender while
\* another connection sits on the roster of a different board only
C2_Witness ==
  /\ last.kind = "broadcast"
  /\ ~panicked
  /\ LET c == last.conn
         n == Get(clients[c].board_context).board_name
     IN  /\ sent[c] # << >>
         /\ sent[c][Len(sent[c])] = last.frame
         /\ \E r \in Conns \ { c }, m \in DOMAIN server \ { n } :
              OnRoster(r, m) /\ ~EverAdded(r, n)

\* C3 (as claimed): after a Join of an existing board for which add_client
\* succeeds, the connection's board context is the board's name with the id
\* add_client assigned.
C3_JoinSetsBoardContext ==
  (AddedOk /\ last.kind = "join") =>
    clients[last.conn].board_context =
      Some([board_client_id |-> joins[LastName][Len(joins[LastName])].id,
            board_name |-> LastName])

\* C4 (as claimed): when a handler broadcasts on a board and the send to a
\* roster member fails, the handler does not abort, the member is off the
\* roster afterwards, and every member that stays is sent a UserLeave frame
\* with an id add_client assigned to the failed member.
C4_DeadPeerEvicted ==
  [][ \A n \in DOMAIN server, c \in Conns :
        ( /\ \/ /\ last'.kind = "broadcast"
                /\ Get(clients[last'.conn].board_context).board_name = n
             \/ /\ last'.kind = "join"
                /\ from_bytes(last'.frame).val.fields[1] = n
                /\ last'.conn # c
          /\ OnRoster(c, n)
          /\ credit[c] = Some(0) ) =>
        /\ ~panicked'
        /\ EntriesAfter(c, n) = { }
        /\ \A r \in Conns :
             (r # last'.conn /\ OnRoster(r, n) /\ EntriesAfter(r, n) # { }) =>
               \E k \in DOMAIN joins[n] :
                 /\ joins[n][k].conn = c
                 /\ Occurrences(NewFrames(r),
                                Frame("UserLeave", << joins[n][k].id >>)) >= 1 ]_vars

\* C5 (as claimed): an add_client that succeeds sends the joining connection
\* the configuration frame, then the history in History frames of at most
\* 65535 bytes of data, and nothing else before or between them.
C5_JoinerGetsConfigurationThenHistory ==
  [][ ( /\ last'.kind \in { "create", "join" }
        /\ last'.close = None
        /\ last'.err = None
        /\ ~panicked' ) =>
        LET m == from_bytes(last'.frame).val
            n == IF m.variant = "Join" THEN m.fields[1] ELSE m.fields[2]
            parts == chunks(server'[n].history, HISTORY_CHUNK)
        IN  NewFrames(last'.conn) =
              << configuration_frame(server'[n]) >>
                \o [i \in 1..Len(parts) |-> history_frame(parts[i])] ]_vars

\* C6 (as claimed): every frame the server produces decodes to a
\* BoardConfiguration, History, UserJoin or UserLeave message, and the frame a
\* creator is sent first decodes to the BoardConfiguration of its board.
C6_ServerFramesAreMessages ==
  /\ \A c \in Conns : \A i \in DOMAIN sent[c] :
       \/ IsDrawing(VariantOf(sent[c][i]))
       \/ VariantOf(sent[c][i]) \in
            { "BoardConfiguration", "History", "UserJoin", "UserLeave" }
  /\ (AddedOk /\ last.kind = "create") =>
       LET d == from_bytes(sent[last.conn][1])
           board == server[LastName]
       IN  /\ d.st = "ok"
           /\ d.val = Struct("BoardConfiguration",
                             << board.palette, board.background_color,
                                board_flags(board), board.history_size >>)
           /\ sent[last.conn][1][1] = VariantIndex("BoardConfiguration")

\* C7: a frame that decodes, other than Auth from an unauthenticated connection
\* and other than Join and Create from an authenticated one without a board,
\* closes the connection with "auth expected" and changes neither the
\* connection's user and board context, nor the boards, nor what any
\* connection was sent.
C7_AuthExpected ==
  [][ \A c \in Conns :
        ( /\ last'.conn = c
          /\ last'.kind \notin { "on_close", "channel" }
          /\ VariantOf(last'.frame) # ""
          /\ \/ Unauthenticated(c) /\ VariantOf(last'.frame) # "Auth"
             \/ Authenticated(c) /\ VariantOf(last'.frame) \notin { "Join", "Create" } )
        =>
        /\ last'.close = AuthExpected
        /\ closing'[c]
        /\ ~panicked'
        /\ clients' = clients
        /\ server' = server
        /\ sent' = sent
        /\ joins' = joins ]_vars

\* an authenticated connection without a board sent a drawing frame and was
\* closed with "auth expected"
C7_Witness ==
  /\ last.close = AuthExpected
  /\ last.conn \in Conns
  /\ Authenticated(last.conn)
  /\ IsDrawing(VariantOf(last.frame))
  /\ server # << >>

\* C8: no connection has a board context without a user, and a user or a board
\* context, once set, stays set.
C8_PhasesLegalAndMonotone ==
  /\ [](\A c \in Conns :
          clients[c].board_context # None => clients[c].authenticated_user # None)
  /\ [][ \A c \in Conns :
           /\ clients[c].authenticated_user # None =>
                clients'[c].authenticated_user # None
           /\ clients[c].board_context # None =>
                clients'[c].board_context # None ]_vars

\* a connection went through all three phases and, in its board, had a frame
\* rejected: it keeps its user and its board context
C8_Witness ==
  /\ last.conn \in Conns
  /\ InBoard(last.conn)
  /\ last.close # None
  /\ \E c \in Conns : Authenticated(c)
  /\ \E c \in Conns : Unauthenticated(c)

\* C9 (as claimed): a connection has at most one roster entry, counted over all
\* boards.
C9_AtMostOneRosterEntry == \A c \in Conns : TotalEntries(c) <= 1

\* C10 (as claimed): the k-th add_client of a board (from 0) assigns the id
\* k mod 256, and after an add_client that succeeds that id is in the
\* connection's board context and in its roster entry.
C10_IdsInJoinOrder ==
  /\ \A n \in BoardNames : \A k \in DOMAIN joins[n] :
       joins[n][k].id = (k - 1) % U8_MODULUS
  /\ AddedOk =>
       LET n == LastName
           id == joins[n][Len(joins[n])].id
           roster == server[n].clients
           context == Some([board_client_id |-> id, board_name |-> n])
       IN  /\ clients[last.conn].board_context = context
           /\ roster[Len(roster)].out = last.conn
           /\ roster[Len(roster)].board_context = context

\* C11 (as claimed): when add_client adds a connection to a board, every other
\* connection already on the roster whose channel accepts sends is sent exactly
\* one UserJoin frame with the newcomer's id and username, and the newcomer is
\* not sent that frame.
C11_NewcomerAnnouncedToOthersOnly ==
  [][ last'.kind \in { "create", "join" } =>
        LET c == last'.conn
            n == NameHandled
            roster == IF n \in DOMAIN server THEN server[n].clients ELSE << >>
            id == IF n \in DOMAIN server THEN server[n].last_client_id ELSE 0
            announce == Frame("UserJoin",
                              << id, Get(clients[c].authenticated_user).username >>)
        IN  /\ \A r \in Conns \ { c } :
                 ( /\ \E i \in DOMAIN roster : roster[i].out = r
                   /\ credit[r] = None ) =>
                   Occurrences(NewFrames(r), announce) = 1
            /\ Occurrences(NewFrames(c), announce) = 0 ]_vars

\* C12 (as claimed): when an Authenticated connection whose channel accepts
\* sends sends Create{name} and no board has that name, afterwards the board
\* exists with that connection as its whole roster, the connection's board
\* context is (name, 0), the board's next id is 1, its history is empty, and
\* the connection was sent one frame, which decodes to the BoardConfiguration
\* message of the board.
C12_CreateMakesBoardOfOne ==
  [][ \A c \in Conns :
        ( /\ Handled(c, "Create")
          /\ Authenticated(c)
          /\ credit[c] = None
          /\ NameHandled \notin DOMAIN server ) =>
        LET n == NameHandled
            context == Some([board_client_id |-> 0, board_name |-> n])
        IN  /\ n \in DOMAIN server'
            /\ Len(server'[n].clients) = 1
            /\ server'[n].clients[1].out = c
            /\ clients'[c].board_context = context
            /\ clients'[c].authenticated_user = clients[c].authenticated_user
            /\ server'[n].last_client_id = 1
            /\ server'[n].history = << >>
            /\ Len(NewFrames(c)) = 1
            /\ from_bytes(NewFrames(c)[1]).st = "ok"
            /\ from_bytes(NewFrames(c)[1]).val =
                 Struct("BoardConfiguration",
                        << server'[n].palette, server'[n].background_color,
                           board_flags(server'[n]), server'[n].history_size >>) ]_vars

\* C13: in the Authenticated phase a Create that names an existing board
\* closes the connection with "board already exists" and a Join that names no
\* board closes it with "board not found"; either way the boards, the
\* connection's user and board context, the roster log and what every
\* connection was sent stay as they were.
C13_CreateExistingJoinAbsentRejected ==
  [][ \A c \in Conns :
        /\ ( /\ Handled(c, "Create")
             /\ Authenticated(c)
             /\ NameHandled \in DOMAIN server ) =>
             /\ last'.close = ErrorClose("board already exists")
             /\ closing'[c]
             /\ ~panicked'
             /\ server' = server
             /\ clients' = clients
             /\ sent' = sent
             /\ joins' = joins
        /\ ( /\ Handled(c, "Join")
             /\ Authenticated(c)
             /\ NameHandled \notin DOMAIN server ) =>
             /\ last'.close = ErrorClose("board not found")
             /\ closing'[c]
             /\ ~panicked'
             /\ server' = server
             /\ clients' = clients
             /\ sent' = sent
             /\ joins' = joins ]_vars

\* a Create of a board that exists, with its roster, was rejected, and so was
\* a Join of a board that does not exist
C13_Witness ==
  /\ last.close = ErrorClose("board already exists")
  /\ Authenticated(last.conn)
  /\ server[LastName].clients # << >>
  /\ \E c \in Conns \ { last.conn } :
       /\ closing[c]
       /\ Authenticated(c)
       /\ sent[c] = << >>
       /\ DOMAIN server = { LastName }

\* C14: in the Unauthenticated phase an Auth frame for which auth returns a
\* user stores that user and neither closes the connection nor touches a
\* board or a channel; one for which auth returns none closes the connection
\* with "invalid auth" and leaves it without a user.
C14_AuthStoresUserOrCloses ==
  [][ \A c \in Conns :
        ( Handled(c, "Auth") /\ Unauthenticated(c) ) =>
        LET user == auth(from_bytes(last'.frame).val)
            none == ensure_auth_match(c, None)
        IN  /\ user # None =>
                 /\ clients'[c] = [authenticated_user |-> user,
                                   board_context |-> None]
                 /\ last'.close = None
                 /\ ~closing'[c]
                 /\ ~panicked'
                 /\ \A d \in Conns \ { c } : clients'[d] = clients[d]
                 /\ server' = server
                 /\ sent' = sent
                 /\ joins' = joins
            /\ user = None =>
                 /\ last'.close = ErrorClose("invalid auth")
                 /\ closing'[c]
                 /\ clients' = clients
            /\ none.close = ErrorClose("invalid auth")
            /\ none.client = clients[c]
            /\ none.boards = server
            /\ none.io = [credit |-> credit, sent |-> sent, order |-> << >>]
            /\ ~none.panicked ]_vars

\* a connection authenticated while a board with a roster existed, and its
\* user is the one auth makes of its token
C14_Witness ==
  /\ last.kind = "auth"
  /\ Authenticated(last.conn)
  /\ clients[last.conn].authenticated_user = Some([username |-> Token(last.conn)])
  /\ ~closing[last.conn]
  /\ \E n \in DOMAIN server : server[n].clients # << >>

\* the close reasons of handle_in_board_msg that contain "invalid atm"
InvalidAtm ==
  { "board configuration invalid atm", "history invalid atm",
    "server message invalid atm", "user join invalid atm",
    "user leave invalid atm" }

\* C15: in the InBoard phase Auth closes the connection with "already
\* authenticated", Join and Create with "already joined a board", and
\* BoardConfiguration, History, ServerMessage, UserJoin and UserLeave with a
\* reason containing "invalid atm"; the step sends nothing to any connection
\* and changes no board (roster, history, id counter) and no board context.
C15_InBoardRejections ==
  [][ \A c \in Conns :
        \A v \in { "Auth", "Join", "Create", "BoardConfiguration", "History",
                   "ServerMessage", "UserJoin", "UserLeave" } :
          ( Handled(c, v) /\ InBoard(c) ) =>
            /\ last'.close # None
            /\ Get(last'.close).code = "Error"
            /\ v = "Auth" => Get(last'.close).reason = "already authenticated"
            /\ v \in { "Join", "Create" } =>
                 Get(last'.close).reason = "already joined a board"
            /\ v \notin { "Auth", "Join", "Create" } =>
                 Get(last'.close).reason \in InvalidAtm
            /\ closing'[c]
            /\ ~panicked'
            /\ sent' = sent
            /\ server' = server
            /\ clients' = clients
            /\ joins' = joins ]_vars

\* a connection in its board, with another connection on the roster, sent a
\* History frame and was closed; the other connection was sent nothing for it
C15_Witness ==
  /\ last.conn \in Conns
  /\ InBoard(last.conn)
  /\ VariantOf(last.frame) = "History"
  /\ last.close = ErrorClose("history invalid atm")
  /\ \E r \in Conns \ { last.conn } :
       /\ OnRoster(r, Get(clients[last.conn].board_context).board_name)
       /\ credit[r] = None
       /\ Len(sent[r]) = 1

\* C16: in the InBoard phase a Ping, Step or Undo frame closes nothing, sends
\* nothing to any connection and changes no board, no connection's user or
\* board context and no channel.
C16_PingStepUndoNoOp ==
  [][ \A c \in Conns :
        \A v \in { "Ping", "Step", "Undo" } :
          ( Handled(c, v) /\ InBoard(c) ) =>
            /\ last'.close = None
            /\ closing' = closing
            /\ ~panicked'
            /\ sent' = sent
            /\ credit' = credit
            /\ server' = server
            /\ clients' = clients
            /\ joins' = joins ]_vars

\* a connection in its board, with another connection on the roster, sent an
\* Undo frame: it stays open and the other connection was sent nothing for it
C16_Witness ==
  /\ last.conn \in Conns
  /\ InBoard(last.conn)
  /\ VariantOf(last.frame) = "Undo"
  /\ last.kind = "noop"
  /\ ~closing[last.conn]
  /\ \E r \in Conns \ { last.conn } :
       /\ OnRoster(r, Get(clients[last.conn].board_context).board_name)
       /\ credit[r] = None
       /\ Len(sent[r]) = 1

\* C17: a board starts with an empty history, and a step appends to the
\* history of board n exactly the bytes of the frame it handled when that
\* frame decodes to Draw, CursorMove, Fill, Image or Text and comes from a
\* connection in board n, and leaves the history as it was otherwise: the
\* history is the concatenation of the drawing frames in processing order.
C17_HistoryIsDrawingLog ==
  [][ \A n \in DOMAIN server' :
        LET old == IF n \in DOMAIN server THEN server[n].history ELSE << >>
        IN  server'[n].history =
              IF \E c \in Conns : Drawn(c, n) THEN old \o last'.frame ELSE old ]_vars

\* after a join was announced on the board, a Draw and then a Fill frame were
\* processed: the history is the bytes of the two frames, in that order
C17_Witness ==
  /\ last.kind = "broadcast"
  /\ ~panicked
  /\ VariantOf(last.frame) = "Fill"
  /\ LET n == Get(clients[last.conn].board_context).board_name
     IN  /\ Len(joins[n]) >= 2
         /\ server[n].history = Frame("Draw", << U32(100), 3, 0 >>) \o last.frame

\* C18: no step removes a board or changes bytes already in its history: the
\* history before the step is a prefix of the history after it.
C18_HistoryAppendOnly ==
  [][ \A n \in DOMAIN server :
        /\ n \in DOMAIN server'
        /\ IsPrefix(server[n].history, server'[n].history) ]_vars

\* a connection joined a board that has a history and was sent that history;
\* the history is as it was
C18_Witness ==
  /\ last.kind = "join"
  /\ AddedOk
  /\ server[LastName].history # << >>
  /\ Len(sent[last.conn]) = 2
  /\ sent[last.conn][2] = history_frame(server[LastName].history)

\* C19 (as claimed): the history of a board is never longer than its
\* history_size; a drawing frame that would make it longer leaves the last
\* history_size bytes, and from then on board_flags has HISTORY_TRIMMED set.
C19_HistoryTrimmedToSize ==
  /\ [](\A n \in DOMAIN server : Len(server[n].history) <= server[n].history_size)
  /\ [][ \A n \in DOMAIN server : \A c \in Conns :
           ( /\ Drawn(c, n)
             /\ Len(server[n].history) + Len(last'.frame) > server[n].history_size ) =>
             LET all == server[n].history \o last'.frame
             IN  /\ server'[n].history =
                      SubSeq(all, Len(all) - server[n].history_size + 1, Len(all))
                 /\ (board_flags(server'[n]) \div HISTORY_TRIMMED) % 2 = 1 ]_vars

\* C20: no step changes or reorders what a connection was already sent, and
\* when a drawing frame from a connection in board n is processed, every
\* connection that is on the roster of n and stays on it is sent that frame
\* next, before anything a later step sends.
C20_FramesInProcessingOrder ==
  [][ /\ \A r \in Conns : IsPrefix(sent[r], sent'[r])
      /\ \A n \in DOMAIN server : \A c \in Conns :
           ( Drawn(c, n) /\ ~panicked' ) =>
             \A r \in Conns :
               ( OnRoster(r, n) /\ EntriesAfter(r, n) # { } ) =>
                 /\ NewFrames(r) # << >>
                 /\ NewFrames(r)[1] = last'.frame ]_vars

\* a connection that joined the board was sent a Draw frame and then a Fill
\* frame of another connection, in the order in which they were processed
C20_Witness ==
  /\ last.kind = "broadcast"
  /\ ~panicked
  /\ \E r \in Conns \ { last.conn } :
       /\ OnRoster(r, Get(clients[last.conn].board_context).board_name)
       /\ Len(sent[r]) = 3
       /\ sent[r][2] = Frame("Draw", << U32(100), 3, 0 >>)
       /\ sent[r][3] = Frame("Fill", << U32(1), U32(2), 4 >>)
       /\ last.frame = sent[r][3]

\* C21: for the sample values of each of the 16 variants (strings and blobs of
\* 0 up to 65535 bytes, the extremes of every integer, palettes of 8 u32),
\* to_bytes succeeds and from_bytes of its result is the value, with every
\* byte consumed.
C21_RoundTrip ==
  /\ codec.stage # "idle" => codec.encoded
  /\ codec.stage = "decoded" =>
       /\ codec.decoded.st = "ok"
       /\ codec.decoded.val = codec.value
       /\ codec.decoded.pos = Len(codec.bytes)

\* a Text message with the largest position and colour and a string holding a
\* four-byte UTF-8 character went through to_bytes and from_bytes
C21_Witness ==
  /\ codec.stage = "decoded"
  /\ codec.value.variant = "Text"
  /\ codec.value.fields[1] = << 65535, 65535 >>
  /\ codec.value.fields[2] = << 240, 159, 142, 168, 122 >>
  /\ codec.value.fields[3] = 255
  /\ codec.decoded.val = codec.value

\* the variant table
VariantTable ==
  [Auth |-> 0, Join |-> 1, Create |-> 2, BoardConfiguration |-> 3, Step |-> 4,
   Draw |-> 5, CursorMove |-> 6, Fill |-> 7, Image |-> 8, Text |-> 9, Undo |-> 10,
   Ping |-> 11, UserJoin |-> 12, UserLeave |-> 13, ServerMessage |-> 14,
   History |-> 15]

\* the little-endian bytes of an integer given as 16-bit limbs: byte k (from
\* 0) is the integer divided by 256^k, modulo 256
LeBytes(limbs, width) ==
  [k \in 1..width |->
     (limbs[((k - 1) \div 2) + 1] \div (IF (k - 1) % 2 = 0 THEN 1 ELSE 256)) % 256]

RECURSIVE Flatten(_)
Flatten(seqs) == IF seqs = << >> THEN << >> ELSE Head(seqs) \o Flatten(Tail(seqs))

\* the layout of one field
FieldLayout(type, v) ==
  CASE type = "u8" -> LeBytes(<< v >>, 1)
    [] type = "u16" -> LeBytes(<< v >>, 2)
    [] type = "u32" -> LeBytes(v, 4)
    [] type = "u64" -> LeBytes(v, 8)
    [] type \in { "str", "bytes" } -> LeBytes(<< Len(v) >>, 2) \o v
    [] type = "palette" -> Flatten([i \in DOMAIN v |-> LeBytes(v[i], 4)])

\* the layout of a message: the variant byte, then the fields in order
Layout(m) ==
  << VariantTable[m.variant] >>
    \o Flatten([i \in DOMAIN m.fields |->
                  FieldLayout(FieldTypes(m.variant)[i], m.fields[i])])

\* C24: the encoding of a message is one byte, the index of its variant in the
\* variant table, then its fields in declaration order with no padding, each
\* integer little-endian at its width and each string or blob after its
\* length in bytes as a little-endian u16.
C24_EncodingLayout ==
  codec.stage # "idle" =>
    /\ codec.encoded
    /\ codec.bytes = Layout(codec.value)

\* Create{template_id: 0x0807060504030201, name: "a"} was encoded as the bytes
\* 02, 01 .. 08, 01 00, 61
C24_Witness ==
  /\ codec.stage = "encoded"
  /\ codec.value = Struct("Create", << << 513, 1027, 1541, 2055 >>, << 97 >> >>)
  /\ codec.bytes = << 2, 1, 2, 3, 4, 5, 6, 7, 8, 1, 0, 97 >>

\* C22 (as claimed): a truncated binary frame (the empty frame, a proper
\* prefix of a valid encoding) does not abort the server: its connection is
\* closed with "invalid message" and the connections, the boards and the
\* frames sent stay as they were.
C22_TruncatedFrameRejected ==
  [][ (BinaryStep /\ Truncated(last'.conn, last'.frame)) =>
        /\ ~panicked'
        /\ last'.close = ErrorClose("invalid message")
        /\ clients' = clients
        /\ server' = server
        /\ sent' = sent ]_vars

\* C23: in every phase a binary frame whose first byte is 16 or more closes its
\* connection with code Error and reason "invalid message", and leaves the
\* connections, the boards (rosters, histories, id counters) and the frames
\* sent as they were.
C23_UnknownVariantRejected ==
  [][ (BinaryStep /\ last'.frame # << >> /\ last'.frame[1] >= Len(Variants)) =>
        /\ ~panicked'
        /\ last'.close = ErrorClose("invalid message")
        /\ closing'[last'.conn]
        /\ clients' = clients
        /\ server' = server
        /\ sent' = sent ]_vars

\* a connection that is in a board, with a second connection on the roster,
\* sent the frame FF and was closed with "invalid message"
C23_Witness ==
  /\ last.kind = "close"
  /\ last.frame = << 255 >>
  /\ last.close = ErrorClose("invalid message")
  /\ InBoard(last.conn)
  /\ \E n \in DOMAIN server : Len(server[n].clients) = 2

\* the number of roster entries of connection c on board n after the step
CountAfter(c, n) ==
  IF n \in DOMAIN server' THEN Cardinality(EntriesAfter(c, n)) ELSE 0

\* the number of roster entries of connection c on board n before the step
CountBefore(c, n) ==
  IF n \in DOMAIN server THEN Cardinality(Entries(c, n)) ELSE 0

\* C27 (as claimed): an add_client that returns an error leaves no entry for
\* its connection on the roster; closing a connection removes no entry; and an
\* entry goes away only in a step in which a send to its connection fails.
C27_RosterEntryLifetime ==
  [][ /\ (last'.kind \in { "create", "join" } /\ last'.err # None /\ ~panicked') =>
           \A n \in BoardNames : CountAfter(last'.conn, n) <= CountBefore(last'.conn, n)
      /\ last'.kind = "on_close" => server' = server
      /\ ~panicked' =>
           \A c \in Conns : \A n \in BoardNames :
             CountAfter(c, n) < CountBefore(c, n) => credit[c] # None ]_vars

\* frame t is an encoded Message followed by more bytes
TrailingBytes(t) ==
  LET d == from_bytes(t)
  IN  d.st = "ok" /\ d.pos < Len(t)

\* C28 (as claimed): a binary frame that is a valid encoding followed by more
\* bytes is rejected with "invalid message" and changes nothing, and every
\* frame that is broadcast and appended to a history is exactly the encoding
\* of the message it decodes to.
C28_ExactlyOneMessagePerFrame ==
  [][ /\ (BinaryStep /\ TrailingBytes(last'.frame)) =>
           /\ last'.close = ErrorClose("invalid message")
           /\ clients' = clients
           /\ server' = server
           /\ sent' = sent
      /\ last'.kind = "broadcast" => ValidEncoding(last'.frame) ]_vars

\* the accepted sends of frame f in the step, in the order they were made
Deliveries(f) ==
  LET idx == { i \in DOMAIN last'.order : last'.order[i].frame = f }
      RECURSIVE Pick(_, _)
      Pick(i, acc) ==
        IF i > Len(last'.order) THEN acc
        ELSE Pick(i + 1, IF i \in idx THEN Append(acc, last'.order[i].to) ELSE acc)
  IN  Pick(1, << >>)

\* C30: broadcast does not leave out the originator.  When a connection that is
\* in a board and on its roster, with a channel that accepts sends, sends a
\* drawing frame, the frame is sent back to it exactly once, and its place
\* among the deliveries of the frame is its place on the roster (no later,
\* and the same when every entry before it accepts sends).
C30_SenderReceivesOwnFrame ==
  [][ last'.kind = "broadcast" =>
        LET c == last'.conn
            f == last'.frame
            n == Get(clients[c].board_context).board_name
            roster == server[n].clients
            D == Deliveries(f)
        IN  (OnRoster(c, n) /\ credit[c] # Some(0)) =>
              /\ Occurrences(NewFrames(c), f) = 1
              /\ Cardinality({ k \in DOMAIN D : D[k] = c }) = 1
              /\ \A p \in Entries(c, n) : \A k \in DOMAIN D :
                    D[k] = c =>
                      /\ k <= p
                      /\ (\A i \in 1..(p - 1) : credit[roster[i].out] = None) => k = p
        ]_vars

\* the creator of a board with a second connection on its roster sent a drawing
\* frame: the frame went to the creator first, then to the other connection
C30_Witness ==
  /\ last.kind = "broadcast"
  /\ ~panicked
  /\ Len(last.order) = 2
  /\ last.order[1] = [to |-> last.conn, frame |-> last.frame]
  /\ last.order[2].to # last.conn
  /\ last.order[2].frame = last.frame
  /\ InBoard(last.conn)

\* the entries of a roster whose channel accepts sends, in roster order
Survivors(roster) == SelectSeq(roster, LAMBDA x : credit[x.out] = None)

\* the entries of a roster whose channel refuses every send, in roster order
Dead(roster) == SelectSeq(roster, LAMBDA x : credit[x.out] = Some(0))

\* C25 (as claimed): when a drawing frame f is broadcast over a roster on which
\* two or more entries have a channel that refuses every send (the others
\* accept every send), the broadcast completes; every survivor receives f and
\* then one UserLeave per dead entry, in the roster order of the dead entries
\* and carrying their ids; and the roster is left with the survivors in their
\* roster order.
C25_DeathsInRosterOrder ==
  [][ last'.kind = "broadcast" =>
        LET c == last'.conn
            f == last'.frame
            n == Get(clients[c].board_context).board_name
            roster == server[n].clients
            dead == Dead(roster)
        IN  (/\ Len(dead) >= 2
             /\ \A i \in DOMAIN roster : credit[roster[i].out] \in { None, Some(0) }) =>
              /\ ~panicked'
              /\ server'[n].clients = Survivors(roster)
              /\ \A r \in Conns :
                    Cardinality(Entries(r, n)) = 1 /\ credit[r] = None =>
                      /\ Len(NewFrames(r)) = 1 + Len(dead)
                      /\ NewFrames(r)[1] = f
                      /\ \A k \in DOMAIN dead :
                            /\ VariantOf(NewFrames(r)[k + 1]) = "UserLeave"
                            /\ dead[k].board_context # None =>
                                 NewFrames(r)[k + 1] =
                                   Frame("UserLeave",
                                         << Get(dead[k].board_context).board_client_id >>)
        ]_vars

\* sequence p is q with some of its elements left out
RECURSIVE IsSubseq(_, _)
IsSubseq(p, q) ==
  IF p = << >> THEN TRUE
  ELSE IF q = << >> THEN FALSE
  ELSE IF Head(p) = Head(q) THEN IsSubseq(Tail(p), Tail(q))
  ELSE IsSubseq(p, Tail(q))

\* the channels as a handler finds them
ChannelsNow == [credit |-> credit, sent |-> sent, order |-> << >>]

\* what one call of broadcast did to a roster: it came to an end having made
\* no more calls of itself than the roster had entries (one per entry it
\* dropped, when it returned), and left a subsequence of the roster
BoundedBroadcast(roster, r) ==
  /\ r.calls <= Len(roster)
  /\ IsSubseq(r.board.clients, roster)
  /\ ~r.panicked => r.calls = Len(roster) - Len(r.board.clients)

\* C26: every call of broadcast comes to an end, whatever channels fail and
\* whenever (before the call, or between its first pass and a pass for a
\* UserLeave): it calls itself at most as many times as the roster had entries
\* at entry, and the roster at exit is a subsequence of the roster at entry.
\* Checked for the broadcast of a drawing frame and for the broadcast of the
\* UserJoin frame inside add_client.
C26_BroadcastTerminates ==
  [][ /\ last'.kind = "broadcast" =>
           LET c == last'.conn
               n == Get(clients[c].board_context).board_name
               r == broadcast(add_to_history(server[n], last'.frame), last'.frame,
                              ChannelsNow)
           IN  /\ BoundedBroadcast(server[n].clients, r)
               /\ server'[n].clients = r.board.clients
               /\ panicked' = r.panicked
      /\ (last'.kind = "join" /\ NameHandled \in DOMAIN server) =>
           LET c == last'.conn
               n == NameHandled
               r == broadcast(server[n],
                              join_message(Get(clients[c].authenticated_user).username,
                                           server[n].last_client_id),
                              ChannelsNow)
           IN  /\ BoundedBroadcast(server[n].clients, r)
               /\ panicked' = r.panicked
               /\ ~r.panicked =>
                    /\ Len(server'[n].clients) = Len(r.board.clients) + 1
                    /\ IsPrefix(r.board.clients, server'[n].clients) ]_vars

\* the creator of a board, whose channel refuses every send, sent a drawing
\* frame: broadcast dropped its entry, called itself once for the UserLeave,
\* and the other connection on the roster was sent the frame and the UserLeave
C26_Witness ==
  /\ last.kind = "broadcast"
  /\ ~panicked
  /\ credit[last.conn] = Some(0)
  /\ \E n \in DOMAIN server :
       /\ Len(server[n].clients) = 1
       /\ server[n].clients[1].out # last.conn
       /\ last.order =
            << [to |-> server[n].clients[1].out, frame |-> last.frame],
               [to |-> server[n].clients[1].out, frame |-> Frame("UserLeave", << 0 >>)] >>

\* the frames add_client sends a new client of a board: the configuration,
\* then the history in chunks
Replay(board) ==
  LET parts == chunks(board.history, HISTORY_CHUNK)
  IN  << configuration_frame(board) >> \o [k \in DOMAIN parts |-> history_frame(parts[k])]

\* C29 (as claimed): a connection added to a board, whose sends never fail,
\* observes every drawing frame of the board exactly once.  A frame handled
\* after the connection was added is sent to it live exactly once in the step
\* that handles it; the frames handled before are in the history the
\* connection is sent, once, in the step that adds it, and that step sends it
\* nothing else.
C29_EachFrameObservedOnce ==
  [][ /\ last'.kind = "broadcast" =>
           LET n == Get(clients[last'.conn].board_context).board_name
           IN  \A r \in Conns :
                 (EverAdded(r, n) /\ credit[r] = None) =>
                   Occurrences(NewFrames(r), last'.frame) = 1
      /\ (/\ last'.kind \in { "create", "join" }
          /\ last'.close = None
          /\ last'.err = None
          /\ ~panicked'
          /\ credit[last'.conn] = None) =>
           NewFrames(last'.conn) =
             Replay(IF NameHandled \in DOMAIN server THEN server[NameHandled]
                    ELSE Board_new) ]_vars

====
